---- MODULE Spec2Model ----
(***************************************************************************)
(* Model of SEQLogger (src/main.go): producers call Log, which validates   *)
(* a LogMessage and sends it on the buffered channel logChan; the single   *)
(* goroutine processLogs receives from the channel, marshals the entry,    *)
(* builds an HTTP POST and sends it, printing a local log line on every    *)
(* failure.                                                                *)
(***************************************************************************)
EXTENDS Naturals, Sequences, FiniteSets

(***************************************************************************)
(* Bounds of the model.                                                    *)
(***************************************************************************)
\* total number of Log calls made by all producers
MaxLogs == 3
\* largest bufferSize handed to NewSEQLogger (0 gives an unbuffered channel)
MaxBuffer == 2

Producers == {"p1", "p2"}

(***************************************************************************)
(* Values.                                                                 *)
(***************************************************************************)
\* http.StatusOK
StatusOK == 200

\* the `level` and `message` arguments callers pass to Log
Levels == {"", "Error"}
Messages == {"", "An error occurred"}

\* time.Now().UTC().Format(time.RFC3339): the instants a call may observe
Instants == {"2024-01-01T00:00:00Z"}

\* a Go map is a reference: the nil map, or the address of a map object that
\* the caller of Log still holds
NilMap == "nil"
MapRefs == {"m1"}
FieldRefs == {NilMap} \cup MapRefs

\* values a map[string]interface{} may hold: a string, or a value
\* encoding/json cannot encode (a channel)
StrVal(s) == [type |-> "string", s |-> s]
ChanVal == [type |-> "chan"]
MapContents ==
    { {},
      {<<"version", StrVal("1.0.0")>>},
      {<<"version", ChanVal>>} }

\* the seqURL and apiKey handed to NewSEQLogger
GoodURL == "http://localhost:5341/api/events/raw"
BadURL == "://localhost:5341"
URLs == {GoodURL, BadURL}
ApiKeys == {"", "YourAPIKey"}

\* what the server may answer, and how the transport may fail
ResponseCodes == {200, 201, 500}
ResponseBody == "seq rejected the event"
TransportErrors == {"dial tcp 127.0.0.1:5341: connect: connection refused"}

StatusText(code) ==
    CASE code = 200 -> "200 OK"
      [] code = 201 -> "201 Created"
      [] code = 500 -> "500 Internal Server Error"

\* type LogMessage struct (id is the ordinal of the Log call that built it)
LogMessage(id, ts, level, message, fields) ==
    [id |-> id, Timestamp |-> ts, Level |-> level,
     MessageTemplate |-> message, Fields |-> fields]

\* the zero value of LogMessage
ZeroMessage == LogMessage(0, "", "", "", NilMap)

VARIABLES
    seqURL,       \* SEQLogger.seqURL
    apiKey,       \* SEQLogger.apiKey
    bufferSize,   \* cap(logChan)
    logChan,      \* the entries buffered in SEQLogger.logChan
    heap,         \* contents of the map objects callers pass as `fields`
    ppc,          \* per producer: "idle", or "send" (blocked at l.logChan <- logMessage)
    pending,      \* per producer: the logMessage its Log call is sending
    wpc,          \* processLogs: "recv", "marshal", "newreq", "send", "do"
    logMessage,   \* processLogs: the loop variable
    data,         \* processLogs: the marshalled payload
    req,          \* processLogs: the request built
    inflight,     \* number of client.Do calls that have not returned
    openBodies,   \* response bodies received and not closed
    printed,      \* the lines the latest step printed with log.Printf
    enqueued,     \* ids in the order their channel send completed
    attempts,     \* ids in the order processLogs received them
    state,        \* per call id: where the entry is in its life
    last,         \* the entry the latest step ended and how (NoOutcome if none)
    calls,        \* number of Log calls made so far
    asQueued,     \* per call id: what `fields` held when the channel send completed
    workers,      \* number of processLogs goroutines running
    closed,       \* whether logChan has been closed
    candidate,    \* the LogMessage a direct call of validateLogMessage is given
    verdict       \* what that call returned ("pending" before it returns)

vars == <<seqURL, apiKey, bufferSize, logChan, heap, ppc, pending, wpc,
          logMessage, data, req, inflight, openBodies, printed,
          enqueued, attempts, state, last, calls, asQueued, workers, closed,
          candidate, verdict>>

Ids == 1..MaxLogs

\* a nil error
Nil == "<nil>"

\* the zero values of processLogs' locals
NoData == [Events |-> <<>>]
NoRequest == [id |-> 0, Method |-> "", URL |-> "", Header |-> {}, Body |-> NoData]
\* how an entry's life ended: which entry, at which point, with which response
Outcome(m, kind, code) ==
    [id |-> m.id, kind |-> kind, code |-> code,
     level |-> m.Level, message |-> m.MessageTemplate]
NoOutcome == Outcome(ZeroMessage, "none", 0)

\* what a `fields` argument holds at this moment: nil, or the map's contents
FieldsValue(ref, h) ==
    IF ref = NilMap THEN [nil |-> TRUE, contents |-> {}]
    ELSE [nil |-> FALSE, contents |-> h[ref]]
NoFields == FieldsValue(NilMap, <<>>)

(***************************************************************************)
(* Pure functions.                                                         *)
(***************************************************************************)
\* faulty variant: the entry is rejected only when all three fields are empty
validateLogMessage_AllEmpty(m) ==
    IF m.Timestamp = "" /\ m.Level = "" /\ m.MessageTemplate = ""
    THEN "missing required log message fields"
    ELSE Nil

\* faulty variant: the check of MessageTemplate is missing
validateLogMessage_NoMessage(m) ==
    IF m.Timestamp = "" \/ m.Level = ""
    THEN "missing required log message fields"
    ELSE Nil

\* func validateLogMessage(logMessage *LogMessage) error
validateLogMessage(m) ==
    IF m.Timestamp = "" \/ m.Level = "" \/ m.MessageTemplate = ""
    THEN "missing required log message fields"
    ELSE Nil

\* the payload processLogs wraps an entry in: one element under "Events"
Payload(m) ==
    [Events |-> << [Timestamp |-> m.Timestamp,
                    Level |-> m.Level,
                    MessageTemplate |-> m.MessageTemplate,
                    Properties |-> m.Fields] >>]

\* encoding/json on a map[string]interface{}: null for the nil map, else an
\* object of the map's present contents; a channel value cannot be encoded
MarshalMap(ref, h) ==
    IF ref = NilMap
    THEN [err |-> Nil, json |-> [null |-> TRUE, members |-> {}]]
    ELSE IF \E kv \in h[ref] : kv[2].type = "chan"
         THEN [err |-> "json: unsupported type: chan int",
               json |-> [null |-> TRUE, members |-> {}]]
         ELSE [err |-> Nil,
               json |-> [null |-> FALSE,
                         members |-> {<<kv[1], kv[2].s>> : kv \in h[ref]}]]

\* json.Marshal(payload)
Marshal(payload, h) ==
    LET ev == payload.Events[1]
        props == MarshalMap(ev.Properties, h)
    IN  IF props.err # Nil
        THEN [err |-> props.err, data |-> NoData]
        ELSE [err |-> Nil,
              data |-> [Events |-> << [Timestamp |-> ev.Timestamp,
                                       Level |-> ev.Level,
                                       MessageTemplate |-> ev.MessageTemplate,
                                       Properties |-> props.json] >>]]

\* http.NewRequest(method, url, body): fails when the URL does not parse
NewRequest(id, method, url, body) ==
    IF url = BadURL
    THEN [err |-> "parse \"://localhost:5341\": missing protocol scheme",
          req |-> NoRequest]
    ELSE [err |-> Nil,
          req |-> [id |-> id, Method |-> method, URL |-> url,
                   Header |-> {}, Body |-> body]]

\* req.Header.Set(key, value)
HeaderSet(r, key, value) ==
    [r EXCEPT !.Header = {h \in @ : h[1] # key} \cup {<<key, value>>}]

\* faulty variant: the api key header is set even when apiKey is empty
WithHeaders_AlwaysKey(r) ==
    HeaderSet(HeaderSet(r, "Content-Type", "application/json"),
              "X-Seq-ApiKey", apiKey)

\* the headers processLogs sets on every request
WithHeaders(r) ==
    LET r1 == HeaderSet(r, "Content-Type", "application/json")
    IN  IF apiKey # "" THEN HeaderSet(r1, "X-Seq-ApiKey", apiKey) ELSE r1

\* faulty variant: every status below 300 counts as success
NotOK_From300(code) == code >= 300

\* resp.StatusCode != http.StatusOK
NotOK(code) == code # StatusOK

\* the lines log.Printf prints
Line(fmt, args) == [fmt |-> fmt, args |-> args]
\* faulty variant: the report leaves out the message template
LocalLine_LevelOnly(m) == Line("Local log: %s", <<m.Level>>)
LocalLine(m) == Line("Local log: %s - %s", <<m.Level, m.MessageTemplate>>)
ValidationLine(err) == Line("Validation failed for log message: %v", <<err>>)
MarshalLine(err) == Line("Failed to marshal log message: %v", <<err>>)
RequestLine(err) == Line("Failed to create HTTP request: %v", <<err>>)
SendLine(err) == Line("Failed to send log message: %v", <<err>>)
ResponseLine(status, body) ==
    Line("SEQ server responded with %v. Response: %v", <<status, body>>)

\* faulty variant: the channel takes one entry more than its capacity
CanBuffer_OffByOne == Len(logChan) <= bufferSize

\* l.logChan <- logMessage can complete by buffering the entry
CanBuffer == Len(logChan) < bufferSize

(***************************************************************************)
(* NewSEQLogger: the logger is constructed and processLogs is started.     *)
(***************************************************************************)
Init ==
    /\ seqURL \in URLs
    /\ apiKey \in ApiKeys
    /\ bufferSize \in 0..MaxBuffer
    /\ logChan = <<>>
    /\ heap \in [MapRefs -> MapContents]
    /\ ppc = [p \in Producers |-> "idle"]
    /\ pending = [p \in Producers |-> ZeroMessage]
    /\ wpc = "recv"
    /\ logMessage = ZeroMessage
    /\ data = NoData
    /\ req = NoRequest
    /\ inflight = 0
    /\ openBodies = 0
    /\ printed = <<>>
    /\ enqueued = <<>>
    /\ attempts = <<>>
    /\ state = [i \in Ids |-> "Absent"]
    /\ last = NoOutcome
    /\ calls = 0
    /\ asQueued = [i \in Ids |-> NoFields]
    /\ workers = 1
    /\ closed = FALSE
    /\ candidate = ZeroMessage
    /\ verdict = "pending"

config == <<seqURL, apiKey, bufferSize>>
direct == <<candidate, verdict>>
lifetime == <<workers, closed>>
workerLocals == <<wpc, logMessage, data, req>>
producerVars == <<ppc, pending, calls>>

(***************************************************************************)
(* Log, up to the channel send.                                            *)
(***************************************************************************)
\* logMessage := LogMessage{...}; validateLogMessage; report and return, or
\* go on to the channel send
\* faulty variant: a failed validation is reported but Log goes on to the
\* channel send
LogCall_NoReturn(p) ==
    /\ ppc[p] = "idle"
    /\ calls < MaxLogs
    /\ \E ts \in Instants, level \in Levels, message \in Messages,
          fields \in FieldRefs :
          LET m == LogMessage(calls + 1, ts, level, message, fields)
              err == validateLogMessage(m)
          IN  /\ calls' = calls + 1
              /\ ppc' = [ppc EXCEPT ![p] = "send"]
              /\ pending' = [pending EXCEPT ![p] = m]
              /\ IF err # Nil
                 THEN /\ printed' = <<ValidationLine(err), LocalLine(m)>>
                      /\ state' = [state EXCEPT ![m.id] = "Dropped"]
                      /\ last' = Outcome(m, "validation", 0)
                 ELSE /\ state' = [state EXCEPT ![m.id] = "Validated"]
                      /\ printed' = <<>>
                      /\ last' = NoOutcome
    /\ UNCHANGED <<config, direct, lifetime, logChan, heap, workerLocals, inflight, openBodies,
                   enqueued, attempts, asQueued>>

LogCall(p) ==
    /\ ppc[p] = "idle"
    /\ calls < MaxLogs
    /\ \E ts \in Instants, level \in Levels, message \in Messages,
          fields \in FieldRefs :
          LET m == LogMessage(calls + 1, ts, level, message, fields)
              err == validateLogMessage(m)
          IN  /\ calls' = calls + 1
              /\ IF err # Nil
                 THEN /\ printed' = <<ValidationLine(err), LocalLine(m)>>
                      /\ state' = [state EXCEPT ![m.id] = "Dropped"]
                      /\ last' = Outcome(m, "validation", 0)
                      /\ UNCHANGED <<ppc, pending>>
                 ELSE /\ ppc' = [ppc EXCEPT ![p] = "send"]
                      /\ pending' = [pending EXCEPT ![p] = m]
                      /\ state' = [state EXCEPT ![m.id] = "Validated"]
                      /\ printed' = <<>>
                      /\ last' = NoOutcome
    /\ UNCHANGED <<config, direct, lifetime, logChan, heap, workerLocals, inflight, openBodies,
                   enqueued, attempts, asQueued>>

\* l.logChan <- logMessage completes: the entry is buffered and Log returns
Enqueue(p) ==
    /\ ppc[p] = "send"
    /\ CanBuffer
    /\ logChan' = Append(logChan, pending[p])
    /\ enqueued' = Append(enqueued, pending[p].id)
    /\ asQueued' = [asQueued EXCEPT ![pending[p].id] =
                        FieldsValue(pending[p].Fields, heap)]
    /\ state' = [state EXCEPT ![pending[p].id] = "Queued"]
    /\ ppc' = [ppc EXCEPT ![p] = "idle"]
    /\ pending' = [pending EXCEPT ![p] = ZeroMessage]
    /\ printed' = <<>>
    /\ last' = NoOutcome
    /\ UNCHANGED <<config, direct, lifetime, heap, workerLocals, inflight, openBodies, attempts, calls>>

\* l.logChan <- logMessage completes by handing the entry to processLogs,
\* which is waiting on the empty channel (the only way on an unbuffered one)
Handoff(p) ==
    /\ ppc[p] = "send"
    /\ wpc = "recv"
    /\ logChan = <<>>
    /\ logMessage' = pending[p]
    /\ wpc' = "marshal"
    /\ enqueued' = Append(enqueued, pending[p].id)
    /\ asQueued' = [asQueued EXCEPT ![pending[p].id] =
                        FieldsValue(pending[p].Fields, heap)]
    /\ attempts' = Append(attempts, pending[p].id)
    /\ state' = [state EXCEPT ![pending[p].id] = "Queued"]
    /\ ppc' = [ppc EXCEPT ![p] = "idle"]
    /\ pending' = [pending EXCEPT ![p] = ZeroMessage]
    /\ printed' = <<>>
    /\ last' = NoOutcome
    /\ UNCHANGED <<config, direct, lifetime, logChan, heap, data, req, inflight, openBodies,
                   calls>>

\* a caller writes to the map it passed (or will pass) as `fields`
MutateFields(p) ==
    /\ ppc[p] = "idle"
    /\ \E ref \in MapRefs, c \in MapContents :
          /\ c # heap[ref]
          /\ heap' = [heap EXCEPT ![ref] = c]
    /\ printed' = <<>>
    /\ last' = NoOutcome
    /\ UNCHANGED <<config, direct, lifetime, logChan, producerVars, workerLocals, inflight,
                   openBodies, enqueued, attempts, state, asQueued>>

(***************************************************************************)
(* processLogs.                                                            *)
(***************************************************************************)
\* faulty variant: a failure ends the loop (return instead of continue)
EndIteration_StopOnFailure(st, kind, code, lines) ==
    /\ state' = [state EXCEPT ![logMessage.id] = st]
    /\ last' = Outcome(logMessage, kind, code)
    /\ printed' = lines
    /\ asQueued' = [asQueued EXCEPT ![logMessage.id] = NoFields]
    /\ wpc' = IF st = "Failed" THEN "returned" ELSE "recv"
    /\ logMessage' = ZeroMessage
    /\ data' = NoData
    /\ req' = NoRequest

\* the iteration for logMessage ends (continue, or the end of the loop body)
EndIteration(st, kind, code, lines) ==
    /\ state' = [state EXCEPT ![logMessage.id] = st]
    /\ last' = Outcome(logMessage, kind, code)
    /\ printed' = lines
    /\ asQueued' = [asQueued EXCEPT ![logMessage.id] = NoFields]
    /\ wpc' = "recv"
    /\ logMessage' = ZeroMessage
    /\ data' = NoData
    /\ req' = NoRequest

\* faulty variant: the newest buffered entry is received first
Receive_Newest ==
    /\ wpc = "recv"
    /\ logChan # <<>>
    /\ logMessage' = logChan[Len(logChan)]
    /\ logChan' = SubSeq(logChan, 1, Len(logChan) - 1)
    /\ attempts' = Append(attempts, logChan[Len(logChan)].id)
    /\ wpc' = "marshal"
    /\ printed' = <<>>
    /\ last' = NoOutcome
    /\ UNCHANGED <<config, direct, lifetime, heap, producerVars, data, req, inflight,
                   openBodies, enqueued, state, asQueued>>

\* faulty variant: the received entry stays in the channel
Receive_NoRemove ==
    /\ wpc = "recv"
    /\ logChan # <<>>
    /\ logMessage' = Head(logChan)
    /\ attempts' = Append(attempts, Head(logChan).id)
    /\ wpc' = "marshal"
    /\ printed' = <<>>
    /\ last' = NoOutcome
    /\ UNCHANGED <<config, direct, lifetime, logChan, heap, producerVars, data, req,
                   inflight, openBodies, enqueued, state, asQueued>>

\* for logMessage := range l.logChan
Receive ==
    /\ wpc = "recv"
    /\ logChan # <<>>
    /\ logMessage' = Head(logChan)
    /\ logChan' = Tail(logChan)
    /\ attempts' = Append(attempts, Head(logChan).id)
    /\ wpc' = "marshal"
    /\ printed' = <<>>
    /\ last' = NoOutcome
    /\ UNCHANGED <<config, direct, lifetime, heap, producerVars, data, req, inflight, openBodies,
                   enqueued, state, asQueued>>

\* payload := ...; data, err := json.Marshal(payload)
MarshalStep ==
    /\ wpc = "marshal"
    /\ LET r == Marshal(Payload(logMessage), heap)
       IN  IF r.err # Nil
           THEN EndIteration("Failed", "marshal", 0,
                             <<MarshalLine(r.err), LocalLine(logMessage)>>)
           ELSE /\ data' = r.data
                /\ wpc' = "newreq"
                /\ state' = [state EXCEPT ![logMessage.id] = "Serialized"]
                /\ printed' = <<>>
                /\ last' = NoOutcome
                /\ UNCHANGED <<logMessage, req, asQueued>>
    /\ UNCHANGED <<config, direct, lifetime, logChan, heap, producerVars, inflight, openBodies,
                   enqueued, attempts>>

\* faulty variant: the request is sent from a goroutine of its own (go client.Do(req))
\* and the loop goes on to the next entry
SendStep_Async ==
    /\ wpc = "newreq"
    /\ LET r == NewRequest(logMessage.id, "POST", seqURL, data)
       IN  IF r.err # Nil
           THEN /\ EndIteration("Failed", "newrequest", 0,
                                <<RequestLine(r.err), LocalLine(logMessage)>>)
                /\ UNCHANGED inflight
           ELSE /\ inflight' = inflight + 1
                /\ EndIteration("Sent", "none", 0, <<>>)
    /\ UNCHANGED <<config, direct, lifetime, logChan, heap, producerVars, openBodies,
                   enqueued, attempts>>

\* req, err := http.NewRequest(...); headers; client.Do(req) is called
SendStep ==
    /\ wpc = "newreq"
    /\ LET r == NewRequest(logMessage.id, "POST", seqURL, data)
       IN  IF r.err # Nil
           THEN /\ EndIteration("Failed", "newrequest", 0,
                                <<RequestLine(r.err), LocalLine(logMessage)>>)
                /\ UNCHANGED inflight
           ELSE /\ req' = WithHeaders(r.req)
                /\ inflight' = inflight + 1
                /\ wpc' = "do"
                /\ state' = [state EXCEPT ![logMessage.id] = "Sent"]
                /\ printed' = <<>>
                /\ last' = NoOutcome
                /\ UNCHANGED <<logMessage, data, asQueued>>
    /\ UNCHANGED <<config, direct, lifetime, logChan, heap, producerVars, openBodies, enqueued,
                   attempts>>

\* faulty variant: a transport error is reported and the request is then
\* built and sent again
DoFails_Retry ==
    /\ wpc = "do"
    /\ \E err \in TransportErrors :
          printed' = <<SendLine(err), LocalLine(logMessage)>>
    /\ wpc' = "newreq"
    /\ state' = [state EXCEPT ![logMessage.id] = "Failed"]
    /\ inflight' = inflight - 1
    /\ last' = Outcome(logMessage, "transport", 0)
    /\ UNCHANGED <<config, direct, lifetime, logChan, heap, producerVars, openBodies,
                   enqueued, attempts, logMessage, data, req, asQueued>>

\* client.Do(req) returns an error
DoFails ==
    /\ wpc = "do"
    /\ \E err \in TransportErrors :
          EndIteration("Failed", "transport", 0,
                       <<SendLine(err), LocalLine(logMessage)>>)
    /\ inflight' = inflight - 1
    /\ UNCHANGED <<config, direct, lifetime, logChan, heap, producerVars, openBodies, enqueued, attempts>>

\* client.Do(req) returns a response; defer resp.Body.Close() only registers
\* the close, which runs when processLogs returns
DoResponds ==
    /\ wpc = "do"
    /\ \E code \in ResponseCodes :
          IF NotOK(code)
          THEN EndIteration("Failed", "response", code,
                            <<ResponseLine(StatusText(code), ResponseBody),
                              LocalLine(logMessage)>>)
          ELSE EndIteration("Delivered", "response", code, <<>>)
    /\ inflight' = inflight - 1
    /\ openBodies' = openBodies + 1
    /\ UNCHANGED <<config, direct, lifetime, logChan, heap, producerVars, enqueued,
                   attempts>>

Next ==
    \/ \E p \in Producers : LogCall(p)
    \/ \E p \in Producers : Enqueue(p)
    \/ \E p \in Producers : Handoff(p)
    \/ \E p \in Producers : MutateFields(p)
    \/ Receive
    \/ MarshalStep
    \/ SendStep
    \/ DoFails
    \/ DoResponds

Spec == Init /\ [][Next]_vars

\* processLogs' own steps: the goroutine is scheduled whenever it can run
WorkerLocal == Receive \/ MarshalStep \/ SendStep
\* client.Do returns, with an error or a response
DoReturns == DoFails \/ DoResponds

\* The Go scheduler runs every runnable goroutine, and the senders blocked on
\* a channel are served in turn; client.Do has no timeout (http.Client{}), so
\* nothing makes a send return.
FairSpec ==
    /\ Spec
    /\ WF_vars(WorkerLocal)
    /\ \A p \in Producers : SF_vars(Enqueue(p) \/ Handoff(p))

\* the same, and every client.Do call returns
LiveSpec == FairSpec /\ WF_vars(DoReturns)

(***************************************************************************)
(* validateLogMessage called directly, on any LogMessage.                  *)
(***************************************************************************)
\* a caller of validateLogMessage may pass any string as the timestamp
Timestamps == {"", "yesterday"} \cup Instants
Candidates ==
    { LogMessage(0, ts, level, message, fields) :
        ts \in Timestamps, level \in Levels, message \in Messages,
        fields \in FieldRefs }

InitValidate ==
    /\ seqURL = GoodURL
    /\ apiKey = ""
    /\ bufferSize = 0
    /\ logChan = <<>>
    /\ heap \in [MapRefs -> MapContents]
    /\ ppc = [p \in Producers |-> "idle"]
    /\ pending = [p \in Producers |-> ZeroMessage]
    /\ wpc = "recv"
    /\ logMessage = ZeroMessage
    /\ data = NoData
    /\ req = NoRequest
    /\ inflight = 0
    /\ openBodies = 0
    /\ printed = <<>>
    /\ enqueued = <<>>
    /\ attempts = <<>>
    /\ state = [i \in Ids |-> "Absent"]
    /\ last = NoOutcome
    /\ calls = 0
    /\ asQueued = [i \in Ids |-> NoFields]
    /\ workers = 1
    /\ closed = FALSE
    /\ candidate \in Candidates
    /\ verdict = "pending"

\* err := validateLogMessage(&candidate)
Validate ==
    /\ verdict = "pending"
    /\ verdict' = validateLogMessage(candidate)
    /\ UNCHANGED <<config, lifetime, candidate, logChan, heap, producerVars,
                   workerLocals, inflight, openBodies, printed, enqueued,
                   attempts, state, last, asQueued>>

NextValidate == Validate

ValidateSpec == InitValidate /\ [][NextValidate]_vars

(***************************************************************************)
(* Helpers of the properties.                                              *)
(***************************************************************************)
Range(q) == {q[i] : i \in 1..Len(q)}
IdsOf(q) == [i \in 1..Len(q) |-> q[i].id]
NonEmpty(m) == m.Timestamp # "" /\ m.Level # "" /\ m.MessageTemplate # ""
\* position of x in the duplicate-free sequence q (0 when absent)
Pos(q, x) == IF x \in Range(q) THEN CHOOSE i \in 1..Len(q) : q[i] = x ELSE 0
Terminal == {"Delivered", "Failed"}

(***************************************************************************)
(* Properties.                                                             *)
(***************************************************************************)

\* C1: no entry with an empty timestamp, level or message template is ever
\* waiting on the channel send, buffered in the channel, held by processLogs
\* or carried by the request handed to client.Do; and an entry that failed
\* validation is never among the enqueued or received ones.
C1_InvalidNeverQueuedNorSent ==
    /\ \A i \in 1..Len(logChan) : NonEmpty(logChan[i])
    /\ \A p \in Producers : ppc[p] = "send" => NonEmpty(pending[p])
    /\ wpc # "recv" => NonEmpty(logMessage)
    /\ wpc = "do" => NonEmpty(req.Body.Events[1]) /\ state[req.id] # "Dropped"
    /\ \A i \in Ids :
          state[i] = "Dropped" =>
              /\ i \notin Range(enqueued) \cup Range(attempts)
              /\ i \notin Range(IdsOf(logChan))
              /\ \A p \in Producers : pending[p].id # i

\* a Log call failed validation while another entry is buffered and a request
\* is in flight
C1_Witness ==
    /\ \E i \in Ids : state[i] = "Dropped"
    /\ logChan # <<>>
    /\ wpc = "do"

\* C2: the entries processLogs has received, followed by those still
\* buffered, are exactly the completed enqueues in their order; so entries
\* are received in enqueue order; the attempt of every entry received
\* earlier has ended (Delivered or Failed) before the latest one is received,
\* and the request in client.Do is always that of the latest entry received.
C2_FIFO ==
    /\ enqueued = attempts \o IdsOf(logChan)
    /\ \A i, j \in 1..Len(attempts) :
          i < j => Pos(enqueued, attempts[i]) < Pos(enqueued, attempts[j])
    /\ \A k \in 1..Len(attempts) :
          k < Len(attempts) => state[attempts[k]] \in Terminal
    /\ wpc # "recv" => logMessage.id = attempts[Len(attempts)]
    /\ wpc = "do" => req.id = attempts[Len(attempts)]

\* two producers enqueued in the opposite order of their calls, the first
\* attempt failed and the later entries were sent in enqueue order
C2_Witness ==
    /\ Len(enqueued) = 3
    /\ enqueued[1] > enqueued[2]
    /\ state[enqueued[1]] = "Failed"
    /\ state[enqueued[2]] = "Delivered"
    /\ state[enqueued[3]] = "Sent"

\* C3: the channel never holds more than bufferSize entries, and a producer
\* blocked on the send stays blocked with its entry untouched until the entry
\* is appended to a channel that has room or handed to the waiting
\* processLogs; buffered entries are only ever removed from the head, by
\* processLogs.
C3_Backpressure ==
    /\ [](Len(logChan) <= bufferSize)
    /\ [][ /\ \A p \in Producers :
                ppc[p] = "send" =>
                    \/ ppc'[p] = "send" /\ pending'[p] = pending[p]
                    \/ /\ Len(logChan) < bufferSize
                       /\ logChan' = Append(logChan, pending[p])
                    \/ /\ logChan = <<>> /\ logChan' = <<>>
                       /\ wpc = "recv"
                       /\ logMessage' = pending[p]
           /\ \/ logChan' = logChan
              \/ \E m \in {pending[p] : p \in Producers} : logChan' = Append(logChan, m)
              \/ logChan # <<>> /\ logChan' = Tail(logChan) /\ logMessage' = Head(logChan)
         ]_vars

\* a producer is blocked on the send while the channel is full and
\* processLogs is busy with an earlier entry
C3_Witness ==
    /\ bufferSize = 1
    /\ Len(logChan) = bufferSize
    /\ \E p \in Producers : ppc[p] = "send"
    /\ wpc = "do"

\* C4: every Log call eventually returns to its caller, whatever processLogs
\* meets: failures, rejections, or a send that never completes.
C4_LogAlwaysReturns ==
    \A p \in Producers : (ppc[p] = "send") ~> (ppc[p] = "idle")

\* C5: processLogs never leaves its loop, and once an iteration has ended in
\* a failure, every entry that is queued is still received and gets its own
\* attempt.
C5_FailureIsolation ==
    /\ [](wpc \in {"recv", "marshal", "newreq", "do"})
    /\ \A j \in Ids :
          ((\E i \in Ids : state[i] = "Failed") /\ state[j] = "Queued")
              ~> (j \in Range(attempts) /\ state[j] \in {"Serialized", "Sent"} \cup Terminal)

\* an entry was attempted, and after the attempt before it had failed
C5_Witness ==
    /\ Len(attempts) >= 2
    /\ state[attempts[1]] = "Failed"
    /\ state[attempts[2]] \in {"Sent", "Delivered"}

\* C6: every queued entry eventually is Delivered or Failed; a Delivered or
\* Failed entry keeps that state for good and is nowhere in the pipeline
\* again.
C6_EntryLifecycle ==
    /\ \A i \in Ids : (state[i] = "Queued") ~> (state[i] \in Terminal)
    /\ [][\A i \in Ids : state[i] \in Terminal => state'[i] = state[i]]_vars
    /\ [](\A i \in Ids :
            state[i] \in Terminal =>
                /\ i \notin Range(IdsOf(logChan))
                /\ logMessage.id # i
                /\ \A p \in Producers : pending[p].id # i
                /\ Len(SelectSeq(attempts, LAMBDA x : x = i)) = 1)

\* one queued entry was delivered and a later one has just been rejected
C6_Witness ==
    \E i, j \in Ids :
        /\ state[i] = "Delivered"
        /\ state[j] = "Failed"
        /\ last.id = j /\ last.kind = "response"

\* C7: at most one client.Do call is outstanding, exactly while processLogs
\* waits in it, and while one is outstanding processLogs receives nothing:
\* the channel only grows, by the producers' sends.
C7_OneInFlight ==
    /\ [](inflight \in {0, 1} /\ (inflight = 1 <=> wpc = "do"))
    /\ [][inflight > 0 =>
            /\ attempts' = attempts
            /\ \/ logChan' = logChan
               \/ \E m \in {pending[p] : p \in Producers} : logChan' = Append(logChan, m)
         ]_vars

\* a request is in flight while an entry is buffered and a producer is blocked
C7_Witness ==
    /\ inflight = 1
    /\ logChan # <<>>
    /\ \E p \in Producers : ppc[p] = "send"

Ended == {"Dropped"} \cup Terminal

\* C8: the step that ends an entry in Dropped or Failed prints two lines, the
\* second being "Local log: <level> - <message>" of that very entry, and for a
\* rejected response the first carrying the response's status and body; the
\* step that ends an entry in Delivered prints nothing; nothing is printed
\* by any other step.
C8_FailureReports ==
    /\ [][\A i \in Ids :
            (state[i] \notin Ended /\ state'[i] \in Ended) =>
                /\ last'.id = i
                /\ (wpc # "recv" /\ logMessage.id = i) =>
                       /\ last'.level = logMessage.Level
                       /\ last'.message = logMessage.MessageTemplate
                /\ IF state'[i] = "Delivered"
                   THEN printed' = <<>>
                   ELSE /\ Len(printed') = 2
                        /\ printed'[2] = [fmt |-> "Local log: %s - %s",
                                          args |-> <<last'.level, last'.message>>]
                        /\ last'.kind = "response" =>
                               printed'[1].args = <<StatusText(last'.code), ResponseBody>>
         ]_vars
    /\ [](printed # <<>> => last.id # 0 /\ state[last.id] \in {"Dropped", "Failed"})

\* a 500 response has just been reported
C8_Witness ==
    /\ last.kind = "response"
    /\ last.code = 500
    /\ state[last.id] = "Failed"
    /\ Len(printed) = 2

\* C9: an iteration of processLogs ends its entry in Delivered exactly when
\* client.Do returned a response with status 200, and in Failed otherwise;
\* the step that ends it changes nothing of any producer.
C9_DeliveredIff200 ==
    /\ []((last.id # 0 /\ last.kind # "validation") =>
            /\ state[last.id] \in Terminal
            /\ state[last.id] = "Delivered" <=>
                   (last.kind = "response" /\ last.code = 200))
    /\ [][(last'.id # 0 /\ last'.kind # "validation") => UNCHANGED producerVars]_vars

\* a 201 response has just ended its entry in Failed
C9_Witness ==
    /\ last.kind = "response"
    /\ last.code = 201
    /\ state[last.id] = "Failed"

\* C10: validateLogMessage returns nil exactly when Timestamp, Level and
\* MessageTemplate are all non-empty, whatever Fields is (nil, an empty map, a
\* populated one), and the call changes nothing but its result.
C10_ValidateIff ==
    /\ [](verdict # "pending" => (verdict = Nil <=> NonEmpty(candidate)))
    /\ [][verdict' # verdict =>
            UNCHANGED <<candidate, heap, config, logChan, producerVars,
                        workerLocals, inflight, openBodies, printed, enqueued,
                        attempts, state, last>>]_vars

\* an entry with a populated map was rejected for its empty timestamp alone
C10_Witness ==
    /\ verdict \notin {"pending", Nil}
    /\ candidate.Timestamp = ""
    /\ candidate.Level # ""
    /\ candidate.MessageTemplate # ""
    /\ candidate.Fields \in MapRefs
    /\ heap[candidate.Fields] # {}

\* the current contents of a JSON object, as map contents
Decoded(json) == {<<kv[1], StrVal(kv[2])>> : kv \in json.members}

\* C11: the payload processLogs has built for the entry it holds is one
\* object with one element under "Events", whose Timestamp, Level and
\* MessageTemplate are the entry's and whose Properties are what `fields`
\* held when Log enqueued the entry (null for the nil map).
C11_PayloadIsEntryAsQueued ==
    wpc \in {"newreq", "do"} =>
        /\ Len(data.Events) = 1
        /\ data.Events[1].Timestamp = logMessage.Timestamp
        /\ data.Events[1].Level = logMessage.Level
        /\ data.Events[1].MessageTemplate = logMessage.MessageTemplate
        /\ data.Events[1].Properties.null = asQueued[logMessage.id].nil
        /\ Decoded(data.Events[1].Properties) = asQueued[logMessage.id].contents

\* C12: the request handed to client.Do is a POST to seqURL with
\* Content-Type: application/json, with X-Seq-ApiKey: apiKey exactly when apiKey
\* is not empty and no other header; seqURL and apiKey never change.
C12_RequestShape ==
    /\ [](wpc = "do" =>
            /\ req.Method = "POST"
            /\ req.URL = seqURL
            /\ req.Header =
                  {<<"Content-Type", "application/json">>}
                  \cup (IF apiKey # "" THEN {<<"X-Seq-ApiKey", apiKey>>} ELSE {}))
    /\ [][seqURL' = seqURL /\ apiKey' = apiKey]_vars

\* the second request of a logger without api key is in flight
C12_Witness ==
    /\ wpc = "do"
    /\ apiKey = ""
    /\ Len(attempts) = 2
    /\ state[attempts[1]] = "Delivered"

\* C13: with bufferSize 1 the channel never holds two entries, a buffered
\* entry is always the one enqueued last (no later send has completed while
\* it waits), and a producer blocked on the full channel stays blocked until
\* processLogs has received the buffered entry.
C13_CapacityOne ==
    /\ [](bufferSize = 1 =>
            /\ Len(logChan) <= 1
            /\ logChan # <<>> => logChan[1].id = enqueued[Len(enqueued)])
    /\ [][(bufferSize = 1 /\ Len(logChan) = 1) =>
            \A p \in Producers :
                ppc[p] = "send" => ppc'[p] = "send" /\ pending'[p] = pending[p]
         ]_vars

\* capacity 1, a slow transport: the first entry is in client.Do, the second
\* was buffered after processLogs received the first, a third call is blocked
C13_Witness ==
    /\ bufferSize = 1
    /\ wpc = "do"
    /\ Len(enqueued) = 2
    /\ attempts = <<enqueued[1]>>
    /\ IdsOf(logChan) = <<enqueued[2]>>
    /\ \E p \in Producers : ppc[p] = "send"

\* C14: whenever processLogs is at the head of its loop, every response body
\* it received has been closed.
C14_NoOpenBodies == wpc = "recv" => openBodies = 0

\* C15: there is exactly one processLogs goroutine, started by NewSEQLogger;
\* no step starts another or closes logChan, so processLogs never leaves its
\* loop and no Log call sends on a closed channel.
C15_OneWorkerForever ==
    /\ [](/\ workers = 1
          /\ ~closed
          /\ wpc \in {"recv", "marshal", "newreq", "do"}
          /\ Cardinality({i \in Ids : state[i] \in {"Serialized", "Sent"}}) <= 1)
    /\ [][workers' = workers /\ closed' = closed]_vars

\* after a failed entry and a delivered one the same processLogs is in its
\* third iteration, while a Log call is at the channel send
C15_Witness ==
    /\ workers = 1
    /\ \E i \in Ids : state[i] = "Failed"
    /\ \E i \in Ids : state[i] = "Delivered"
    /\ wpc = "marshal"
    /\ Len(attempts) = 3

\* the entries that have been handed to client.Do
Issued == {i \in Ids : state[i] \in {"Sent"} \cup Terminal /\ i \in Range(attempts)}

\* C16: a Log call whose entry fails validation prints the validation report
\* and the local report, and leaves the channel, processLogs' state, the
\* requests issued and every blocked send as they were: it never reaches the
\* channel send.
C16_InvalidLogIsLocal ==
    [][\A i \in Ids :
          (state[i] = "Absent" /\ state'[i] = "Dropped") =>
              /\ UNCHANGED <<logChan, workerLocals, inflight, openBodies,
                             enqueued, attempts, ppc, pending, lifetime>>
              /\ \A j \in Ids \ {i} : state'[j] = state[j]
              /\ Issued' = Issued
              /\ last'.kind = "validation" /\ last'.id = i
              /\ Len(printed') = 2
              /\ printed'[1].fmt = "Validation failed for log message: %v"
              /\ printed'[2] = Line("Local log: %s - %s",
                                    <<last'.level, last'.message>>)
      ]_vars

\* an invalid Log call has just returned although the channel is full and
\* processLogs is inside client.Do
C16_Witness ==
    /\ last.kind = "validation"
    /\ state[last.id] = "Dropped"
    /\ bufferSize >= 1
    /\ Len(logChan) = bufferSize
    /\ wpc = "do"

\* the entries that are buffered or held by processLogs
Live == Range(logChan) \cup (IF wpc = "recv" THEN {} ELSE {logMessage})

\* C17: no step changes what an entry that is buffered or held by processLogs
\* says, the contents of its `fields` map included.
C17_QueuedEntriesImmutable ==
    [][\A m \in Live :
          /\ m \in Range(logChan') \cup {logMessage'} \/ state'[m.id] \in Terminal
          /\ m.Fields \in MapRefs => heap'[m.Fields] = heap[m.Fields]
      ]_vars

\* ids of the buffered entries, of the held entry, of the finished entries
QueuedIds == Range(IdsOf(logChan))
HeldIds == IF wpc = "recv" THEN {} ELSE {logMessage.id}
TerminalIds == {i \in Ids : state[i] \in Terminal}
NoDuplicates(seq) == \A a, b \in 1..Len(seq) : seq[a] = seq[b] => a = b

\* C18: every enqueued entry is received at most once and only enqueued
\* entries are received; the enqueued entries are exactly the buffered ones,
\* the one processLogs holds and the finished ones, each counted once.
C18_NoLossNoDuplication ==
    /\ NoDuplicates(enqueued)
    /\ NoDuplicates(attempts)
    /\ NoDuplicates(IdsOf(logChan))
    /\ Range(attempts) \subseteq Range(enqueued)
    /\ Range(attempts) = HeldIds \cup TerminalIds
    /\ Range(enqueued) = QueuedIds \cup HeldIds \cup TerminalIds
    /\ QueuedIds \cap HeldIds = {}
    /\ QueuedIds \cap TerminalIds = {}
    /\ HeldIds \cap TerminalIds = {}
    /\ Len(enqueued) = Len(logChan) + Cardinality(HeldIds) + Cardinality(TerminalIds)

\* three entries were enqueued: one is finished, one is in client.Do, one is
\* buffered
C18_Witness ==
    /\ Len(enqueued) = 3
    /\ Cardinality(TerminalIds) = 1
    /\ wpc = "do"
    /\ Len(logChan) = 1

\* the entries that were enqueued and have not reached a terminal state
Outstanding == {i \in Ids : state[i] \in {"Queued", "Serialized", "Sent"}}

\* C19: at most bufferSize + 1 enqueued entries are not yet finished, and
\* every entry still waiting at the channel send belongs to the one blocked
\* Log call of its producer.
C19_BoundedOutstanding ==
    /\ Cardinality(Outstanding) <= bufferSize + 1
    /\ Outstanding = QueuedIds \cup HeldIds
    /\ \A i \in Ids :
          state[i] = "Validated" =>
              Cardinality({p \in Producers : ppc[p] = "send" /\ pending[p].id = i}) = 1
    /\ \A p \in Producers :
          ppc[p] = "send" => state[pending[p].id] = "Validated"
    /\ Cardinality({i \in Ids : state[i] = "Validated"}) <= Cardinality(Producers)

\* the bound is reached: the channel of capacity 2 is full and processLogs
\* holds a third entry
C19_Witness ==
    /\ bufferSize = 2
    /\ Cardinality(Outstanding) = 3
    /\ Len(logChan) = 2
====
